---------------------------- MODULE Spec2Model ----------------------------
(***************************************************************************)
(* A model of pyknon's musiclib (src/pyknon/musiclib.py): the note-token   *)
(* parser, the Note/Rest values and the NoteSeq container with its list    *)
(* objects on the heap.                                                    *)
(*                                                                         *)
(* A token is the sequence of its characters (<<"c", "#", "8">> is "c#8"). *)
(* A duration is the exact fraction <<numerator, denominator>> in lowest   *)
(* terms of the number Python computes.                                    *)
(***************************************************************************)
EXTENDS Integers, Sequences, FiniteSets

VARIABLES
    lists,        \* the heap: list object id -> its elements
    seqs,         \* the NoteSeq instances, in order of construction
    callerLists,  \* ids of the list objects a caller passed to NoteSeq(...)
    last          \* the call that ran last: its name, arguments and result

vars == <<lists, seqs, callerLists, last>>

----------------------------------------------------------------------------
(* Bounds of the model *)

MaxTokens == 3
MaxSeqs == 2
MaxChain == 3
MaxLen == 1
MaxOctave == 2
MaxDurNum == 4

----------------------------------------------------------------------------
(* Numbers *)

Abs(x) == IF x < 0 THEN -x ELSE x

RECURSIVE GCD(_, _)
GCD(a, b) == IF b = 0 THEN a ELSE GCD(b, a % b)

\* The fraction n/d (d > 0) in lowest terms.
Frac(n, d) == LET g == GCD(Abs(n), d) IN <<n \div g, d \div g>>

FracMul(a, b) == Frac(a[1] * b[1], a[2] * b[2])

\* Python's divmod(a, b) for b > 0: (floor(a / b), a mod b).
divmod(a, b) == <<a \div b, a % b>>

----------------------------------------------------------------------------
\* REGEX_NOTE and re.match: five groups, one pitch letter, then a run of
\* accidentals, a run of digits, a run of dots and a run of octave marks.

PitchChars == {"a", "b", "c", "d", "e", "f", "g",
               "A", "B", "C", "D", "E", "F", "G", "R", "r"}
AccChars == {"b", "#"}
DigitChars == {"0", "1", "2", "3", "4", "5", "6", "7", "8", "9"}
DotChars == {"."}
OctaveChars == {"'", ","}

\* The end (exclusive) of the longest run of characters of cs that starts at i.
RECURSIVE RunEnd(_, _, _)
RunEnd(s, i, cs) ==
    IF i <= Len(s) /\ s[i] \in cs THEN RunEnd(s, i + 1, cs) ELSE i

Slice(s, i, j) == IF j <= i THEN <<>> ELSE SubSeq(s, i, j - 1)

\* m.groups() of a token that matches (its first character is a pitch
\* letter; the match may end before the token does): each group is greedy.
Groups(note) ==
    LET a == RunEnd(note, 2, AccChars)
        d == RunEnd(note, a, DigitChars)
        p == RunEnd(note, d, DotChars)
        o == RunEnd(note, p, OctaveChars)
    IN  [pitch |-> note[1],
         acc   |-> Slice(note, 2, a),
         dur   |-> Slice(note, a, d),
         dots  |-> Slice(note, d, p),
         octv  |-> Slice(note, p, o)]

DigitValue(c) ==
    CASE c = "0" -> 0 [] c = "1" -> 1 [] c = "2" -> 2 [] c = "3" -> 3
      [] c = "4" -> 4 [] c = "5" -> 5 [] c = "6" -> 6 [] c = "7" -> 7
      [] c = "8" -> 8 [] c = "9" -> 9

\* int(dur) of a non-empty string of digits.
RECURSIVE int(_)
int(s) ==
    IF Len(s) = 0 THEN 0
    ELSE 10 * int(SubSeq(s, 1, Len(s) - 1)) + DigitValue(s[Len(s)])

lower(c) ==
    CASE c = "A" -> "a" [] c = "B" -> "b" [] c = "C" -> "c" [] c = "D" -> "d"
      [] c = "E" -> "e" [] c = "F" -> "f" [] c = "G" -> "g" [] c = "R" -> "r"
      [] OTHER -> c

\* string.count(c)
RECURSIVE count(_, _)
count(s, c) ==
    IF Len(s) = 0 THEN 0
    ELSE (IF Head(s) = c THEN 1 ELSE 0) + count(Tail(s), c)

\* list.index(x), counted from 0: the first place x stands at.
index(s, x) == (CHOOSE i \in 1..Len(s) :
                   s[i] = x /\ \A j \in 1..(i - 1) : s[j] # x) - 1

----------------------------------------------------------------------------
(* Rest and Note *)

Rest(dur) == [kind |-> "Rest", dur |-> dur]

\* Note.__init__ as it would be if it dropped the quotient of divmod.
Note_unfolded_octave(value, octave, dur, volume) ==
    [kind |-> "Note", value |-> divmod(value, 12)[2], octave |-> octave,
     dur |-> dur, volume |-> volume]

\* Note.__init__ with a numeric value, as Python's divmod computes it.
Note(value, octave, dur, volume) ==
    LET dm == divmod(value, 12)
    IN  [kind |-> "Note", value |-> dm[2], octave |-> octave + dm[1],
         dur |-> dur, volume |-> volume]

isNote(x) == x.kind = "Note"
isRest(x) == x.kind = "Rest"

DefaultOctave == 5
DefaultDur == <<1, 1>>
DefaultVolume == 100
ParseVolume == 120

----------------------------------------------------------------------------
(* The parser *)

parse_accidental(acc) ==
    LET n == Len(acc)
    IN  IF \E i \in 1..Len(acc) : acc[i] = "b" THEN -n ELSE n

parse_octave(string) ==
    IF Len(string) > 0
    THEN LET size == count(string, string[1])
         IN  IF string[1] = "'" THEN size + 4 ELSE -size + 5
    ELSE 5

\* 1.0 / int(dur) * 4, and half as much again when dotted; int(dur) > 0.
parse_dur(dur, dots) ==
    LET value == Frac(4, int(dur))
    IN  IF Len(dots) > 0 THEN Frac(3 * value[1], 2 * value[2]) ELSE value

note_names == <<"c", "#", "d", "#", "e", "f", "#", "g", "#", "a", "#", "b">>

\* parse_note: a Rest, or the tuple (note_number, octave, duration, volume).
parse_note(note, volume, prev_octave, prev_dur) ==
    LET m == Groups(note)
        octave == IF Len(m.octv) > 0 THEN parse_octave(m.octv) ELSE prev_octave
        duration == IF Len(m.dur) > 0 THEN parse_dur(m.dur, m.dots) ELSE prev_dur
    IN  IF m.pitch \in {"r", "R"}
        THEN Rest(duration)
        ELSE [kind |-> "args",
              number |-> index(note_names, lower(m.pitch)) + parse_accidental(m.acc),
              octave |-> octave, dur |-> duration, volume |-> volume]

\* The locals of parse_notes before its loop.
parse_notes_start ==
    [result |-> <<>>, prev_octave |-> DefaultOctave, prev_dur |-> DefaultDur]

\* The loop body as it would be if only notes set prev_dur.
parse_notes_step_notes_only(st, item, volume) ==
    LET args == parse_note(item, volume, st.prev_octave, st.prev_dur)
    IN  IF isRest(args)
        THEN [result |-> Append(st.result, args),
              prev_octave |-> st.prev_octave,
              prev_dur |-> st.prev_dur]
        ELSE [result |-> Append(st.result,
                               Note(args.number, args.octave, args.dur, args.volume)),
              prev_octave |-> args.octave,
              prev_dur |-> args.dur]

\* One iteration of the loop of parse_notes, on its locals st.
parse_notes_step(st, item, volume) ==
    LET args == parse_note(item, volume, st.prev_octave, st.prev_dur)
    IN  IF isRest(args)
        THEN [result |-> Append(st.result, args),
              prev_octave |-> st.prev_octave,
              prev_dur |-> args.dur]
        ELSE [result |-> Append(st.result,
                               Note(args.number, args.octave, args.dur, args.volume)),
              prev_octave |-> args.octave,
              prev_dur |-> args.dur]

RECURSIVE parse_notes_loop(_, _, _)
parse_notes_loop(st, notes, volume) ==
    IF Len(notes) = 0 THEN st
    ELSE parse_notes_loop(parse_notes_step(st, Head(notes), volume),
                          Tail(notes), volume)

parse_notes(notes, volume) ==
    parse_notes_loop(parse_notes_start, notes, volume).result


----------------------------------------------------------------------------
(* Note and Rest methods *)

\* An optional argument is the empty set (None) or the set of its one value.
None == {}
Some(x) == {x}
ValueOf(opt) == CHOOSE x \in opt : TRUE
\* Python's truth of an optional integer: None and 0 are false.
Truthy(opt) == opt # {} /\ opt # {0}

\* Note(token): the fields are parse_note's tuple as it stands.
Note_from_str(token) ==
    LET t == parse_note(token, ParseVolume, DefaultOctave, DefaultDur)
    IN  [kind |-> "Note", value |-> t.number, octave |-> t.octave,
         dur |-> t.dur, volume |-> t.volume]

midi_number(self) == self.value + (self.octave * 12)

note_octave(self, octave) == self.value + ((self.octave - octave) * 12)

Note_transposition(self, idx) ==
    Note(self.value + idx, self.octave, self.dur, self.volume)

Note_inversion(self, idx, initial_octave) ==
    LET value == IF Truthy(initial_octave)
                 THEN note_octave(self, ValueOf(initial_octave))
                 ELSE self.value
        octv == IF Truthy(initial_octave)
                THEN ValueOf(initial_octave) ELSE self.octave
        note_value == (2 * idx) - value
    IN  Note(note_value, octv, self.dur, self.volume)

Note_stretch_dur(self, factor) ==
    Note(self.value, self.octave, FracMul(self.dur, factor), self.volume)

Rest_stretch_dur(self, factor) == Rest(FracMul(self.dur, factor))

\* Note.__sub__
Note_sub(self, other) == midi_number(self) - midi_number(other)

----------------------------------------------------------------------------
(* NoteSeq: what each method computes from the elements of self.items *)

\* str.split(): the maximal runs of characters other than the blank.
RECURSIVE split_from(_, _, _)
split_from(s, word, acc) ==
    IF Len(s) = 0
    THEN (IF Len(word) > 0 THEN Append(acc, word) ELSE acc)
    ELSE IF Head(s) = " "
    THEN split_from(Tail(s), <<>>,
                    IF Len(word) > 0 THEN Append(acc, word) ELSE acc)
    ELSE split_from(Tail(s), Append(word, Head(s)), acc)

split(s) == split_from(s, <<>>, <<>>)

\* _is_note_or_rest as it would be with any(...) for all(...).
is_any_note_or_rest(args) ==
    \E i \in 1..Len(args) : args[i].kind \in {"Note", "Rest"}

is_note_or_rest(args) ==
    \A i \in 1..Len(args) : args[i].kind \in {"Note", "Rest"}

\* list(reversed(items))
reversed(items) == [i \in 1..Len(items) |-> items[Len(items) + 1 - i]]

NoteSeq_retrograde(items) == reversed(items)

NoteSeq_transposition(items, idx) ==
    [i \in 1..Len(items) |->
        IF isNote(items[i]) THEN Note_transposition(items[i], idx) ELSE items[i]]

\* _note_or_integer: an int is Note(item), with Note's defaults.
note_or_integer(item) ==
    IF item.kind = "int"
    THEN Note(item.value, DefaultOctave, DefaultDur, DefaultVolume)
    ELSE item

NoteSeq_transposition_startswith(items, note_start) ==
    LET note == note_or_integer(note_start)
    IN  NoteSeq_transposition(items, Note_sub(note, items[1]))

NoteSeq_inversion(items, idx) ==
    LET initial_octave == Some(items[1].octave)
    IN  [i \in 1..Len(items) |->
            IF isNote(items[i])
            THEN Note_inversion(items[i], idx, initial_octave)
            ELSE items[i]]

NoteSeq_inversion_startswith(items, note_start) ==
    LET note == note_or_integer(note_start)
        inv == NoteSeq_inversion(
                   NoteSeq_transposition_startswith(
                       items, Note(0, note.octave, DefaultDur, DefaultVolume)),
                   0)
    IN  NoteSeq_transposition_startswith(inv, note)

\* rotate as it would be if it rotated to the right.
NoteSeq_rotate_right(items, n) ==
    LET modn == n % Len(items)
    IN  SubSeq(items, Len(items) - modn + 1, Len(items))
            \o SubSeq(items, 1, Len(items) - modn)

\* items[modn:] + items[0:modn]
NoteSeq_rotate(items, n) ==
    LET modn == n % Len(items)
    IN  SubSeq(items, modn + 1, Len(items)) \o SubSeq(items, 1, modn)

NoteSeq_stretch_dur(items, factor) ==
    [i \in 1..Len(items) |->
        IF isNote(items[i]) THEN Note_stretch_dur(items[i], factor)
        ELSE Rest_stretch_dur(items[i], factor)]

Min(a, b) == IF a <= b THEN a ELSE b

\* intervals as it would be if it kept the wraparound pair.
NoteSeq_intervals_cyclic(items) ==
    LET v1 == [i \in 1..Len(items) |-> items[i].value]
        v2 == [i \in 1..Len(items) |-> NoteSeq_rotate(items, 1)[i].value]
    IN  [i \in 1..Len(items) |-> v2[i] - v1[i]]

\* zip(v1, v2[:-1]) stops at the shorter of the two.
NoteSeq_intervals(items) ==
    LET v1 == [i \in 1..Len(items) |-> items[i].value]
        v2 == [i \in 1..Len(items) |-> NoteSeq_rotate(items, 1)[i].value]
        v2_init == SubSeq(v2, 1, Len(v2) - 1)
    IN  [i \in 1..Min(Len(v1), Len(v2_init)) |-> v2_init[i] - v1[i]]

\* The loop of stretch_inverval: result so far, the note it ends with.
RECURSIVE stretch_loop(_, _, _)
stretch_loop(result, note, intervals) ==
    IF Len(intervals) = 0 THEN result
    ELSE LET next == Note_transposition(note, Head(intervals))
         IN  stretch_loop(Append(result, next), next, Tail(intervals))

NoteSeq_stretch_inverval(items, factor) ==
    LET intervals == [i \in 1..Len(NoteSeq_intervals(items)) |->
                         NoteSeq_intervals(items)[i] + factor]
    IN  stretch_loop(<<items[1]>>, items[1], intervals)

\* Element and sequence equality, __eq__. A Rest compares its dur with the
\* other's dur, whatever the other is; a Note compared with a Rest raises
\* AttributeError, which is no equality.
Elem_eq(x, y) ==
    IF isNote(x)
    THEN isNote(y) /\ x.value = y.value /\ x.dur = y.dur /\ x.octave = y.octave
    ELSE x.dur = y.dur

NoteSeq_eq(a, b) ==
    Len(a) = Len(b) /\ \A i \in 1..Len(a) : Elem_eq(a[i], b[i])

\* What a transformation raises instead of returning, "" when it returns:
\* an empty self.items, a first element or an element without the field read.
AllNotes(items) == \A i \in 1..Len(items) : isNote(items[i])

Raised(op, items) ==
    CASE op \in {"transposition", "retrograde", "stretch_dur"} -> ""
      [] op = "rotate" ->
            IF Len(items) = 0 THEN "ZeroDivisionError" ELSE ""
      [] op \in {"inversion", "transposition_startswith", "inversion_startswith"} ->
            IF Len(items) = 0 THEN "IndexError"
            ELSE IF ~isNote(items[1]) THEN "AttributeError" ELSE ""
      [] op \in {"intervals", "stretch_inverval"} ->
            IF ~AllNotes(items) THEN "AttributeError"
            ELSE IF Len(items) = 0 THEN "ZeroDivisionError" ELSE ""

----------------------------------------------------------------------------
(* Inputs *)

\* Well-formed tokens: notes and rests, with and without accidentals,
\* duration digits, dots and octave marks.
NoteTokens ==
    { <<"c">>, <<"e">>, <<"b", "b">>, <<"c", "b">>, <<"b", "#">>,
      <<"c", "'">>, <<"G", ",", ",">>, <<"d", "8">>, <<"f", "#", "2", ".">>,
      <<"a", "1", "6", "'", "'">>, <<"e", ".">> }
RestTokens ==
    { <<"r">>, <<"R", "2">>, <<"r", "'", "'">>, <<"r", "8", ".", ",">> }
Tokens == NoteTokens \cup RestTokens

RawValues == -13..13
Octaves == (DefaultOctave - MaxOctave)..(DefaultOctave + MaxOctave)
RawOctaves == {0, 4, 5, 6}
Indices == {-13, -1, 0, 5, 12}
Factors == {<<2, 1>>, <<1, 2>>}
InitialOctaves == {None, Some(0), Some(5)}

\* The notes the model follows: octave and duration within the bounds.
InBounds(n) ==
    /\ n.octave \in Octaves
    /\ n.dur[1] <= MaxDurNum
    /\ n.dur[2] <= MaxDurNum

\* The heap before any call: the list object that is NoteSeq.__init__'s
\* default argument, created once when the class is defined.
DefaultArgs == 1
EmptyHeap ==
    /\ lists = <<<<>>>>
    /\ seqs = <<>>
    /\ callerLists = {}

----------------------------------------------------------------------------
(* NoteSeq instances and the list objects they hold *)

Items(i) == lists[seqs[i].items]

\* What last holds after a call that returned None or a NoteSeq (which
\* seqs holds): nothing raised, no plain value returned.
Quiet == [op |-> "", self |-> 0, raised |-> "", ret |-> <<>>]

\* A call returns a new NoteSeq built on a list object of its own:
\* NoteSeq(parse_notes(...)), NoteSeq([... for x in self.items]), ...
\* The instance remembers the call that made it (op, self, n, x).
ReturnsNew(op, self, n, x, items) ==
    /\ lists' = Append(lists, items)
    /\ seqs' = Append(seqs, [items |-> Len(lists) + 1, op |-> op,
                             self |-> self, n |-> n, x |-> x])
    /\ last' = Quiet
    /\ UNCHANGED callerLists

\* A call raises: nothing is built and nothing is changed.
Raises(op, self, error) ==
    /\ last' = [op |-> op, self |-> self, raised |-> error, ret |-> <<>>]
    /\ UNCHANGED <<lists, seqs, callerLists>>

\* NoteSeq("..."): self.items = parse_notes(args.split())
NoteSeqInitStr(string) ==
    ReturnsNew("NoteSeq(str)", 0, 0, None,
               parse_notes(split(string), ParseVolume))

\* NoteSeq(args) on a list the caller has just built: self.items = args,
\* the caller's own list object, or MusiclibError (the model then lets go
\* of the rejected list, which nothing refers to any more).
NoteSeqInitList(args) ==
    IF is_note_or_rest(args)
    THEN /\ lists' = Append(lists, args)
         /\ callerLists' = callerLists \cup {Len(lists) + 1}
         /\ seqs' = Append(seqs, [items |-> Len(lists) + 1,
                                  op |-> "NoteSeq(list)", self |-> 0,
                                  n |-> 0, x |-> None])
         /\ last' = Quiet
    ELSE Raises("NoteSeq(list)", 0, "MusiclibError")

\* NoteSeq(): args is the one list object made when the class was defined.
NoteSeqInitDefault ==
    IF is_note_or_rest(lists[DefaultArgs])
    THEN /\ seqs' = Append(seqs, [items |-> DefaultArgs, op |-> "NoteSeq()",
                                  self |-> 0, n |-> 0, x |-> None])
         /\ last' = Quiet
         /\ UNCHANGED <<lists, callerLists>>
    ELSE Raises("NoteSeq()", 0, "MusiclibError")

\* NoteSeq(5): neither a str nor an Iterable.
NoteSeqInitOther == Raises("NoteSeq(other)", 0, "MusiclibError")

\* list.insert(i, value), 0 <= i <= len
InsertAt(items, i, value) ==
    SubSeq(items, 1, i) \o <<value>> \o SubSeq(items, i + 1, Len(items))

Mutates(self, items) ==
    /\ lists' = [lists EXCEPT ![seqs[self].items] = items]
    /\ last' = Quiet
    /\ UNCHANGED <<seqs, callerLists>>

\* insert, and append, which MutableSequence defines as insert(len(self), value)
insert(self, i, value) ==
    /\ Len(Items(self)) < MaxLen
    /\ Mutates(self, InsertAt(Items(self), i, value))

append(self, value) ==
    /\ Len(Items(self)) < MaxLen
    /\ Mutates(self, InsertAt(Items(self), Len(Items(self)), value))

\* self.items[i] = value, 0 <= i < len
setitem(self, i, value) ==
    Mutates(self, [Items(self) EXCEPT ![i + 1] = value])

\* del self.items[i], 0 <= i < len
delitem(self, i) ==
    Mutates(self,
            SubSeq(Items(self), 1, i) \o SubSeq(Items(self), i + 2, Len(Items(self))))

\* retrograde as it would be if it reversed self.items in place and
\* returned a NoteSeq on the same list object.
retrograde_in_place(self) ==
    /\ lists' = [lists EXCEPT ![seqs[self].items] = reversed(Items(self))]
    /\ seqs' = Append(seqs, [items |-> seqs[self].items, op |-> "retrograde",
                             self |-> self, n |-> 0, x |-> None])
    /\ last' = Quiet
    /\ UNCHANGED callerLists

retrograde(self) ==
    ReturnsNew("retrograde", self, 0, None, NoteSeq_retrograde(Items(self)))

transposition(self, idx) ==
    ReturnsNew("transposition", self, idx, None,
                  NoteSeq_transposition(Items(self), idx))

transposition_startswith(self, note_start) ==
    IF Raised("transposition_startswith", Items(self)) # ""
    THEN Raises("transposition_startswith", self,
                Raised("transposition_startswith", Items(self)))
    ELSE ReturnsNew("transposition_startswith", self, 0, Some(note_start),
                       NoteSeq_transposition_startswith(Items(self), note_start))

inversion(self, idx) ==
    IF Raised("inversion", Items(self)) # ""
    THEN Raises("inversion", self, Raised("inversion", Items(self)))
    ELSE ReturnsNew("inversion", self, idx, None,
                       NoteSeq_inversion(Items(self), idx))

inversion_startswith(self, note_start) ==
    IF Raised("inversion_startswith", Items(self)) # ""
    THEN Raises("inversion_startswith", self,
                Raised("inversion_startswith", Items(self)))
    ELSE ReturnsNew("inversion_startswith", self, 0, Some(note_start),
                       NoteSeq_inversion_startswith(Items(self), note_start))

rotate(self, n) ==
    IF Raised("rotate", Items(self)) # ""
    THEN Raises("rotate", self, Raised("rotate", Items(self)))
    ELSE ReturnsNew("rotate", self, n, None, NoteSeq_rotate(Items(self), n))

stretch_dur(self, factor) ==
    ReturnsNew("stretch_dur", self, 0, Some(factor),
                  NoteSeq_stretch_dur(Items(self), factor))

stretch_inverval(self, factor) ==
    IF Raised("stretch_inverval", Items(self)) # ""
    THEN Raises("stretch_inverval", self,
                Raised("stretch_inverval", Items(self)))
    ELSE ReturnsNew("stretch_inverval", self, factor, None,
                       NoteSeq_stretch_inverval(Items(self), factor))

\* intervals() returns a list of integers and builds no NoteSeq that stays.
intervals(self) ==
    /\ IF Raised("intervals", Items(self)) # ""
       THEN last' = [op |-> "intervals", self |-> self,
                     raised |-> Raised("intervals", Items(self)), ret |-> <<>>]
       ELSE last' = [op |-> "intervals", self |-> self, raised |-> "",
                     ret |-> NoteSeq_intervals(Items(self))]
    /\ UNCHANGED <<lists, seqs, callerLists>>

----------------------------------------------------------------------------
(* The library in use: constructions, in-place changes, transformations *)

\* What callers pass: strings, lists of Notes and Rests, lists with other
\* things in them, and the values they insert.
PyInt(n) == [kind |-> "int", value |-> n]
G5 == Note(7, DefaultOctave, DefaultDur, DefaultVolume)
A6 == Note(9, 6, <<2, 1>>, DefaultVolume)
HalfRest == Rest(<<2, 1>>)

Strings == { <<"r", "2", " ", "c", "b">> }
ListArgs == { <<G5>>,
              <<PyInt(1), PyInt(2), PyInt(3)>>, <<G5, PyInt(1)>> }
Values == {HalfRest}
Targets == {PyInt(2)}

Init ==
    /\ EmptyHeap
    /\ last = Quiet

\* The model follows at most MaxSeqs instances.
CanBuild == Len(seqs) < MaxSeqs

Receivers == 1..Len(seqs)
Places(self) == 0..(Len(Items(self)) - 1)

Next ==
    \/ \E s \in Strings : CanBuild /\ NoteSeqInitStr(s)
    \/ \E a \in ListArgs : CanBuild /\ NoteSeqInitList(a)
    \/ CanBuild /\ NoteSeqInitDefault
    \/ NoteSeqInitOther
    \/ \E self \in Receivers, v \in Values : append(self, v)
    \/ \E self \in Receivers, v \in Values :
          \E i \in 0..Len(Items(self)) : insert(self, i, v)
    \/ \E self \in Receivers, v \in Values :
          \E i \in Places(self) : setitem(self, i, v)
    \/ \E self \in Receivers : \E i \in Places(self) : delitem(self, i)
    \/ \E self \in Receivers : CanBuild /\ retrograde(self)
    \/ \E self \in Receivers : CanBuild /\ transposition(self, 1)
    \/ \E self \in Receivers, t \in Targets :
          CanBuild /\ transposition_startswith(self, t)
    \/ \E self \in Receivers : CanBuild /\ inversion(self, 0)
    \/ \E self \in Receivers, t \in Targets :
          CanBuild /\ inversion_startswith(self, t)
    \/ \E self \in Receivers : CanBuild /\ rotate(self, 1)
    \/ \E self \in Receivers : CanBuild /\ stretch_dur(self, <<1, 2>>)
    \/ \E self \in Receivers : CanBuild /\ stretch_inverval(self, 1)

Spec == Init /\ [][Next]_vars

----------------------------------------------------------------------------
(* Chains of calls, seq.rotate(a).rotate(b): a NoteSeq is constructed and  *)
(* each method is called on the NoteSeq the call before it returned        *)

C4note == Note(0, 4, DefaultDur, DefaultVolume)
ChainStrings == { <<"c", " ", "e", "8", " ", "r", " ", "g", "'", "'">> }
ChainLists == { <<G5>>, <<G5, A6, C4note>>, <<A6, HalfRest, G5>>,
                <<Note_from_str(<<"c", "b">>), G5>> }
ChainTargets == { PyInt(2), Note(0, 0, DefaultDur, DefaultVolume),
                  Note(3, 6, DefaultDur, DefaultVolume) }
Rotations == {-4, -1, 0, 1, 2, 5}

Newest == Len(seqs)

\* The chain is not started yet; it may grow by one more call.
ChainEmpty == Len(seqs) = 0
ChainOpen == Len(seqs) >= 1 /\ Len(seqs) < MaxChain

NextChain ==
    \/ \E s \in ChainStrings : ChainEmpty /\ NoteSeqInitStr(s)
    \/ \E a \in ChainLists : ChainEmpty /\ NoteSeqInitList(a)
    \/ ChainOpen /\ retrograde(Newest)
    \/ \E i \in {-13, 7} : ChainOpen /\ transposition(Newest, i)
    \/ \E t \in ChainTargets : ChainOpen /\ transposition_startswith(Newest, t)
    \/ \E i \in {0, 3} : ChainOpen /\ inversion(Newest, i)
    \/ \E t \in ChainTargets : ChainOpen /\ inversion_startswith(Newest, t)
    \/ \E n \in Rotations : ChainOpen /\ rotate(Newest, n)
    \/ \E f \in Factors : ChainOpen /\ stretch_dur(Newest, f)
    \/ \E f \in {-2, 1} : ChainOpen /\ stretch_inverval(Newest, f)
    \/ Len(seqs) >= 1 /\ intervals(Newest)

SpecChain == Init /\ [][NextChain]_vars

----------------------------------------------------------------------------
(* parse_notes, one loop iteration at a time *)

InitParse ==
    /\ EmptyHeap
    /\ last = [op |-> "parse_notes", notes |-> <<>>, st |-> parse_notes_start]

ParseNotesIter(item) ==
    /\ last.op = "parse_notes"
    /\ Len(last.notes) < MaxTokens
    /\ last' = [op |-> "parse_notes",
                notes |-> Append(last.notes, item),
                st |-> parse_notes_step(last.st, item, ParseVolume)]
    /\ UNCHANGED <<lists, seqs, callerLists>>

NextParse == \E item \in Tokens : ParseNotesIter(item)

SpecParse == InitParse /\ [][NextParse]_vars

----------------------------------------------------------------------------
(* Notes: construction and the methods that return a new Note *)

\* Note(value, octave) and Note(token), as the records of their calls.
NoteInit(value, octave) ==
    [op |-> "Note", value |-> value, octave |-> octave,
     ret |-> Note(value, octave, DefaultDur, DefaultVolume)]

NoteInitStr(token) ==
    [op |-> "NoteStr", token |-> token, ret |-> Note_from_str(token)]

\* A Note has just been constructed, from raw fields or from a token.
InitNote ==
    /\ EmptyHeap
    /\ last \in {NoteInit(v, o) : v \in RawValues, o \in RawOctaves}
                \cup {NoteInitStr(t) : t \in NoteTokens}

NoteTransposition(idx) ==
    /\ LET n == Note_transposition(last.ret, idx)
       IN  /\ InBounds(n)
           /\ last' = [op |-> "transposition", self |-> last.ret,
                       index |-> idx, ret |-> n]
    /\ UNCHANGED <<lists, seqs, callerLists>>

NoteInversion(idx, initial_octave) ==
    /\ LET n == Note_inversion(last.ret, idx, initial_octave)
       IN  /\ InBounds(n)
           /\ last' = [op |-> "inversion", self |-> last.ret, index |-> idx,
                       initial_octave |-> initial_octave, ret |-> n]
    /\ UNCHANGED <<lists, seqs, callerLists>>

NoteStretchDur(factor) ==
    /\ LET n == Note_stretch_dur(last.ret, factor)
       IN  /\ InBounds(n)
           /\ last' = [op |-> "stretch_dur", self |-> last.ret,
                       factor |-> factor, ret |-> n]
    /\ UNCHANGED <<lists, seqs, callerLists>>

NextNote ==
    \/ \E i \in Indices : NoteTransposition(i)
    \/ \E i \in Indices, r \in InitialOctaves :
          NoteInversion(i, r)
    \/ \E f \in Factors : NoteStretchDur(f)

SpecNote == InitNote /\ [][NextNote]_vars

----------------------------------------------------------------------------
(* C1: Note(v, o) from a raw integer v stores value = v mod 12, in 0..11,  *)
(* and octave = o + floor(v / 12), so that its midi_number is v + 12 * o;  *)
(* Note(12, 5) has value 0 and octave 6, Note(-1, 5) value 11 and octave 4. *)
C1_OctaveFold ==
    last.op = "Note" =>
        /\ last.ret.value \in 0..11
        /\ 12 * (last.ret.octave - last.octave) + last.ret.value = last.value
        /\ midi_number(last.ret) = last.value + 12 * last.octave
        /\ (last.value = 12 /\ last.octave = 5) =>
               (last.ret.value = 0 /\ last.ret.octave = 6)
        /\ (last.value = -1 /\ last.octave = 5) =>
               (last.ret.value = 11 /\ last.ret.octave = 4)

\* A negative raw value has been folded into the octave below.
C1_Witness ==
    /\ last.op = "Note"
    /\ last.value = -1
    /\ last.octave = 5
    /\ last.ret.value = 11
    /\ last.ret.octave = 4

(* C10: every Note that is constructed, from raw fields or from a token,   *)
(* or returned by transposition, inversion or stretch_dur, has a value in  *)
(* 0..11.                                                                  *)
C10_ValueNormalized ==
    last.op \in {"Note", "NoteStr", "transposition", "inversion", "stretch_dur"}
        => last.ret.value \in 0..11


----------------------------------------------------------------------------
(* What C2 expects of a token sequence, stated on the tokens alone *)

IsRestToken(token) == token[1] \in {"r", "R"}
HasOctaveMark(token) == Len(Groups(token).octv) > 0
HasDurDigits(token) == Len(Groups(token).dur) > 0
OwnOctave(token) == parse_octave(Groups(token).octv)
OwnDur(token) == parse_dur(Groups(token).dur, Groups(token).dots)
OwnNumber(token) ==
    index(note_names, lower(token[1])) + parse_accidental(Groups(token).acc)

\* The duration of token i: its own, or that of the token just before it.
RECURSIVE ExpectedDur(_, _)
ExpectedDur(notes, i) ==
    IF i = 0 THEN DefaultDur
    ELSE IF HasDurDigits(notes[i]) THEN OwnDur(notes[i])
    ELSE ExpectedDur(notes, i - 1)

\* The octave of the nearest note token at or before place i that has an
\* octave mark of its own, skipping rests; 5 when a bare note has no note
\* before it.
RECURSIVE ExpectedOctave(_, _)
ExpectedOctave(notes, i) ==
    IF i = 0 THEN DefaultOctave
    ELSE IF IsRestToken(notes[i]) THEN ExpectedOctave(notes, i - 1)
    ELSE IF HasOctaveMark(notes[i]) THEN OwnOctave(notes[i])
    ELSE ExpectedOctave(notes, i - 1)

(* C2: in parse_notes a note token's octave is its own mark's, else the    *)
(* resolved octave of the nearest preceding note token, else 5; a token's  *)
(* duration is its own when it has digits, else that of the token just     *)
(* before it, else 1. A rest never changes the carried octave, not even    *)
(* with an octave mark; notes and rests both change the carried duration.  *)
C2_CarryOver ==
    last.op = "parse_notes" =>
        LET notes == last.notes
            st == last.st
            n == Len(notes)
        IN  /\ Len(st.result) = n
            /\ \A i \in 1..n :
                  IF IsRestToken(notes[i])
                  THEN st.result[i] = Rest(ExpectedDur(notes, i))
                  ELSE st.result[i] = Note(OwnNumber(notes[i]),
                                           ExpectedOctave(notes, i),
                                           ExpectedDur(notes, i), ParseVolume)
            /\ st.prev_octave = ExpectedOctave(notes, n)
            /\ st.prev_dur = ExpectedDur(notes, n)

\* A marked note, then a rest with digits and an octave mark of its own,
\* then a bare note: the note's octave comes from the first note and its
\* duration from the rest.
C2_Witness ==
    /\ last.op = "parse_notes"
    /\ last.notes = << <<"G", ",", ",">>, <<"r", "8", ".", ",">>, <<"c">> >>
    /\ last.st.result[3] = Note(0, 3, <<3, 4>>, ParseVolume)
    /\ last.st.prev_octave = 3


----------------------------------------------------------------------------
(* Steps of the heap *)

NoteOrRest(x) == x.kind \in {"Note", "Rest"}

\* The step built a NoteSeq / changed a list in place and built nothing.
Built == Len(seqs') = Len(seqs) + 1
ChangedInPlace == seqs' = seqs /\ lists' # lists

(* C3: NoteSeq(collection) with an element that is neither a Note nor a    *)
(* Rest raises MusiclibError and builds no NoteSeq, not even partially;    *)
(* with Notes and Rests only it succeeds; so every NoteSeq a constructor   *)
(* returns holds only Notes and Rests.                                     *)
C3_ConstructorValidates ==
    [][ /\ \A a \in ListArgs :
              NoteSeqInitList(a) =>
                  IF \E k \in 1..Len(a) : ~NoteOrRest(a[k])
                  THEN /\ last'.raised = "MusiclibError"
                       /\ seqs' = seqs
                       /\ lists' = lists
                  ELSE /\ Built
                       /\ last'.raised = ""
                       /\ lists'[seqs'[Len(seqs')].items] = a
        /\ (Built /\ seqs'[Len(seqs')].self = 0) =>
              \A k \in 1..Len(lists'[seqs'[Len(seqs')].items]) :
                  NoteOrRest(lists'[seqs'[Len(seqs')].items][k])
      ]_vars

\* A list with an integer in it has just been refused, beside a NoteSeq
\* that was built from a list.
C3_Witness ==
    /\ last.op = "NoteSeq(list)"
    /\ last.raised = "MusiclibError"
    /\ \E j \in 1..Len(seqs) : seqs[j].op = "NoteSeq(list)"

(* C4: a NoteSeq owns its element list exclusively: an in-place change     *)
(* (append, insert, item assignment, deletion) made through one instance   *)
(* leaves the contents of every other instance, and of every list that    *)
(* was passed to a constructor, as they were.                              *)
C4_ExclusiveOwnership ==
    [][ ChangedInPlace =>
            /\ \E m \in 1..Len(seqs) :
                  \A j \in (1..Len(seqs)) \ {m} : Items(j)' = Items(j)
            /\ \A l \in callerLists : lists'[l] = lists[l]
      ]_vars

(* C5: each transformation leaves its receiver (and everything else) as    *)
(* it was and returns a new NoteSeq on a list object of its own, shared    *)
(* with no instance and no caller; so an in-place change of the result     *)
(* never changes the receiver, nor one of the receiver the result.         *)
C5_TransformationsPure ==
    [][ /\ (Built /\ seqs'[Len(seqs')].self # 0) =>
              /\ \A j \in 1..Len(seqs) :
                    seqs'[j] = seqs[j] /\ Items(j)' = Items(j)
              /\ \A l \in 1..Len(lists) : lists'[l] = lists[l]
              /\ seqs'[Len(seqs')].items \notin 1..Len(lists)
        /\ ChangedInPlace =>
              \A j \in 1..Len(seqs) :
                  seqs[j].self # 0 =>
                      ~(Items(j)' # Items(j)
                          /\ Items(seqs[j].self)' # Items(seqs[j].self))
      ]_vars

\* A transformation's result and its receiver after one of them was changed
\* in place: the lengths differ now.
C5_Witness ==
    \E j \in 1..Len(seqs) :
        /\ seqs[j].op = "retrograde"
        /\ Len(Items(j)) # Len(Items(seqs[j].self))

----------------------------------------------------------------------------
(* Chains *)

Derived(k, op) == seqs[k].op = op /\ seqs[k].self # 0

\* How often x stands in items.
Occurrences(items, x) == Cardinality({p \in 1..Len(items) : items[p] = x})

(* C6: for a NoteSeq whose first element is a Note and any target Note or  *)
(* integer, of any target octave, inversion_startswith(target) is the      *)
(* inversion anchored at the target: at every Note place i,                *)
(* result[i].midi_number - target.midi_number =                            *)
(* -(seq[i].midi_number - seq[0].midi_number); rests and all durations     *)
(* pass through unchanged.                                                 *)
C6_InversionAnchored ==
    \A k \in 1..Len(seqs) :
        Derived(k, "inversion_startswith") =>
            LET seq == Items(seqs[k].self)
                result == Items(k)
                target == note_or_integer(ValueOf(seqs[k].x))
            IN  /\ Len(result) = Len(seq)
                /\ \A i \in 1..Len(seq) :
                      IF isNote(seq[i])
                      THEN /\ isNote(result[i])
                           /\ midi_number(result[i]) - midi_number(target)
                                = -(midi_number(seq[i]) - midi_number(seq[1]))
                           /\ result[i].dur = seq[i].dur
                      ELSE result[i] = seq[i]

(* C7: for a NoteSeq of length >= 1 and all integers a and b,              *)
(* seq.rotate(a).rotate(b) == seq.rotate(a + b), where rotate(n) is the    *)
(* cyclic left-rotation by n mod length; rotate keeps the length and the   *)
(* multiset of elements.                                                   *)
C7_RotateComposes ==
    \A k \in 1..Len(seqs) :
        Derived(k, "rotate") =>
            LET j == seqs[k].self
                L == Len(Items(j))
            IN  /\ Len(Items(k)) = L
                /\ \A p \in 1..L :
                      Items(k)[p] = Items(j)[((p - 1 + seqs[k].n) % L) + 1]
                /\ \A p \in 1..L :
                      Occurrences(Items(k), Items(j)[p])
                          = Occurrences(Items(j), Items(j)[p])
                /\ Derived(j, "rotate") =>
                      NoteSeq_eq(Items(k),
                                 NoteSeq_rotate(Items(seqs[j].self),
                                                seqs[j].n + seqs[k].n))

\* Two rotations whose sum wraps around, one of them negative, on a
\* sequence of four distinct elements.
C7_Witness ==
    \E k \in 1..Len(seqs) :
        /\ Derived(k, "rotate") /\ seqs[k].n = 5
        /\ Derived(seqs[k].self, "rotate") /\ seqs[seqs[k].self].n = -4
        /\ Len(Items(k)) = 4
        /\ Items(k) # Items(seqs[seqs[k].self].self)
        /\ Items(k) # Items(seqs[k].self)

(* C8: inverting twice around the same axis gives back the pitch values:   *)
(* for a NoteSeq whose first element is a Note, seq.inversion(k)           *)
(* .inversion(k) has the length of seq and, at every Note place, a Note    *)
(* of the same value; and for every Note n, axis k and reference octave r, *)
(* n.inversion(k, r).inversion(k, r) has the value of n.                   *)
C8_InversionInvolution ==
    /\ \A k \in 1..Len(seqs) :
          (/\ Derived(k, "inversion")
           /\ Derived(seqs[k].self, "inversion")
           /\ seqs[seqs[k].self].n = seqs[k].n) =>
              LET seq == Items(seqs[seqs[k].self].self)
                  twice == Items(k)
              IN  /\ Len(twice) = Len(seq)
                  /\ \A i \in 1..Len(seq) :
                        isNote(seq[i]) =>
                            isNote(twice[i]) /\ twice[i].value = seq[i].value
    /\ \A k \in 1..Len(seqs) : \A i \in 1..Len(Items(k)) :
          isNote(Items(k)[i]) =>
              \A axis \in {0, 3}, r \in {0, 4, 5} :
                  Note_inversion(Note_inversion(Items(k)[i], axis, Some(r)),
                                 axis, Some(r)).value = Items(k)[i].value

(* C9: for a NoteSeq of length L >= 1 that holds only Notes, intervals()   *)
(* returns exactly L - 1 integers, the i-th being value[i+1] - value[i]    *)
(* of consecutive elements, without the pair last-to-first; the receiver   *)
(* is unchanged.                                                           *)
C9_Intervals ==
    [][ \A self \in 1..Len(seqs) :
            (intervals(self) /\ Len(Items(self)) >= 1 /\ AllNotes(Items(self))) =>
                /\ last'.raised = ""
                /\ Len(last'.ret) = Len(Items(self)) - 1
                /\ \A i \in 1..(Len(Items(self)) - 1) :
                      last'.ret[i] = Items(self)[i + 1].value - Items(self)[i].value
                /\ Items(self)' = Items(self)
                /\ seqs' = seqs
      ]_vars

\* intervals() has returned two intervals, one up and one down.
C9_Witness ==
    /\ last.op = "intervals"
    /\ last.raised = ""
    /\ Len(last.ret) = 2
    /\ \E i, j \in 1..2 : last.ret[i] > 0 /\ last.ret[j] < 0

============================================================================
